---- MODULE Spec2Model ----
(***************************************************************************)
(* Model of the MCP server manager (src/mcp_manager.py): the worker        *)
(* registry, the port pool, start/stop/restart of one worker or of all,    *)
(* and the background health-monitor thread.  The manager holds no lock,   *)
(* so every thread's position inside an operation is part of the state and *)
(* the threads interleave at the operations' blocking points (process      *)
(* launch, startup delay, RPC round trips, process wait, sleeps).          *)
(***************************************************************************)
EXTENDS Integers, Sequences, FiniteSets, TLC

(* ------------------------------ bounds --------------------------------- *)

\* Width of the configured port range.
NumPorts == 2

\* Live processes of one worker that no handle refers to any more; a launch
\* that would leave more of them is not explored.
MaxOrphans == 1

\* Largest health_check.retry_count of the configurations explored.
MaxRetry == 2

(* --------------------------- configuration ----------------------------- *)

\* global_settings.port_range.start (the default of _load_config).
PortStart == 8000

PortEnd == PortStart + NumPorts - 1

PortRange == PortStart..PortEnd

\* Worker ids a control request may name.  A configuration need not declare
\* all of them: an id it leaves out is an unknown id.
Ids == {"a", "b"}

\* Declaration order of the "mcp_servers" section.
IdOrder == <<"a", "b">>

\* Values of the "category" field that queries name.
Categories == {"workout", "testing"}

\* One entry of "mcp_servers".  port 0 stands for "connection.port absent".
WorkerConfig(prio, p, r) ==
    [enabled |-> TRUE, auto_start |-> TRUE, priority |-> prio, port |-> p,
     health_enabled |-> TRUE, retry_count |-> r, category |-> "workout"]

\* Configurations declaring the single worker "a".
OneWorkerConfigs ==
    {[id \in {"a"} |-> WorkerConfig(5, 0, r)] : r \in 1..MaxRetry}

\* The single worker "a" with "enabled": false.
DisabledConfigs ==
    {[id \in {"a"} |-> [WorkerConfig(5, 0, 1) EXCEPT !.enabled = FALSE]]}

\* Configurations declaring "a" and "b"; "b" has the higher priority.
TwoWorkerConfigs ==
    {[id \in Ids |-> IF id = "a" THEN WorkerConfig(2, 0, 1)
                                  ELSE WorkerConfig(1, 0, MaxRetry)]}

\* Configurations declaring "a" and "b" with every combination of two
\* priorities and of the auto_start flags.
BatchConfigs ==
    {[id \in Ids |->
         [WorkerConfig(IF id = "a" THEN pa ELSE pb, 0, 1)
             EXCEPT !.auto_start = IF id = "a" THEN sa ELSE sb]] :
       pa \in 1..2, pb \in 1..2, sa \in BOOLEAN, sb \in BOOLEAN}

\* "a" has priority 1 and no pinned port; "b" has priority 5 and pins a port
\* of the configured range.
PinnedConfigs ==
    {[id \in Ids |-> IF id = "a" THEN WorkerConfig(1, 0, 1)
                                  ELSE WorkerConfig(5, PortStart + 1, 1)]}

\* Tool catalogues a worker may advertise in answer to list_tools().
Catalogues == {<<"t1">>, <<"t1", "t2">>}

(* ------------------------------ threads -------------------------------- *)

\* Foreground control contexts (request handler, shutdown path).  Each
\* specification says which of them issue calls.
Callers == {"c1", "c2"}

\* The health-monitor threads start_health_monitoring can create: a call
\* that finds the flag cleared creates a new thread, whether or not an
\* earlier one has ended.
Monitors == {"m1", "m2"}

\* The thread of the specifications in which at most one loop is created.
FirstMonitor == {"m1"}

Threads == Callers \cup Monitors

VARIABLES
    config,           \* config["mcp_servers"]: id -> entry
    auto_recovery,    \* config["global_settings"]["auto_recovery"]
    port_pool,        \* MCPManager.port_pool
    servers,          \* keys of MCPManager.servers, in insertion order
    status,           \* server.health.status
    port,             \* server.port, 0 = None
    process,          \* server.process: "none", "alive" or "exited"
    orphans,          \* live processes of the worker that no handle refers to
    client,           \* server.client is not None
    tools,            \* server.tools: sequence of <<worker id, tool name>>
    failure_count,    \* server.health.failure_count
    error_message,    \* server.health.error_message, "none" = None
    monitoring_active,\* MCPManager.monitoring_active
    pc,               \* each thread's position
    op,               \* the control call a thread is executing
    cur,              \* the worker id the thread is working on
    todo,             \* remaining ids of a loop over workers
    isize,            \* dict size seen when the monitor's iteration began
    found,            \* discovered_tools of a handshake in progress
    ret               \* result of the thread's last completed call

cfgVars == <<config, auto_recovery>>

regVars == <<servers, status, port, process, orphans, client, tools,
             failure_count, error_message>>

thrVars == <<pc, op, cur, todo, isize, found, ret>>

vars == <<config, auto_recovery, port_pool, servers, status, port, process,
          orphans, client, tools, failure_count, error_message,
          monitoring_active, pc, op, cur, todo, isize, found, ret>>

(* ------------------------------ helpers -------------------------------- *)

ConfiguredIds == DOMAIN config

Tracked(id) == \E i \in 1..Len(servers) : servers[i] = id

TrackedIds == {servers[i] : i \in 1..Len(servers)}

\* "<workerId>_<toolName>" for every tool of the catalogue, in order.
BuildTools(id, cat) == [i \in 1..Len(cat) |-> <<id, cat[i]>>]

\* The configured ids in declaration order.
RECURSIVE Declared(_)
Declared(s) ==
    IF s = <<>> THEN <<>>
    ELSE IF Head(s) \in ConfiguredIds THEN <<Head(s)>> \o Declared(Tail(s))
         ELSE Declared(Tail(s))

\* start_all_servers: sorted(server_configs.items(), key=priority); the
\* sort is stable, so equal priorities keep declaration order.
RECURSIVE InsertByPriority(_, _)
InsertByPriority(id, s) ==
    IF s = <<>> THEN <<id>>
    ELSE IF config[Head(s)].priority <= config[id].priority
         THEN <<Head(s)>> \o InsertByPriority(id, Tail(s))
         ELSE <<id>> \o s

RECURSIVE SortByPriority(_)
SortByPriority(s) ==
    IF s = <<>> THEN <<>>
    ELSE InsertByPriority(s[Len(s)], SortByPriority(SubSeq(s, 1, Len(s) - 1)))

\* Mutation of sorted_servers: the configuration is not sorted.
DeclarationOrder == Declared(IdOrder)

sorted_servers == SortByPriority(Declared(IdOrder))

(* --------------------------- initial state ----------------------------- *)

\* The manager as __init__ and _load_config leave it, for a configuration
\* document out of cfgs.
InitWith(cfgs) ==
    /\ config \in cfgs
    /\ auto_recovery \in BOOLEAN
    /\ port_pool = PortRange
    /\ servers = <<>>
    /\ status = [id \in Ids |-> "stopped"]
    /\ port = [id \in Ids |-> 0]
    /\ process = [id \in Ids |-> "none"]
    /\ orphans = [id \in Ids |-> 0]
    /\ client = [id \in Ids |-> FALSE]
    /\ tools = [id \in Ids |-> <<>>]
    /\ failure_count = [id \in Ids |-> 0]
    /\ error_message = [id \in Ids |-> "none"]
    /\ monitoring_active = FALSE
    /\ pc = [t \in Threads |-> IF t \in Monitors THEN "mon_none" ELSE "idle"]
    /\ op = [t \in Threads |-> "none"]
    /\ cur = [t \in Threads |-> "none"]
    /\ todo = [t \in Threads |-> <<>>]
    /\ isize = [t \in Threads |-> 0]
    /\ found = [t \in Threads |-> <<>>]
    /\ ret = [t \in Threads |-> "none"]

Init == InitWith(OneWorkerConfigs \cup DisabledConfigs)

InitTwo == InitWith(TwoWorkerConfigs)

InitBatch == InitWith(BatchConfigs)

InitPinned == InitWith(PinnedConfigs)

\* One worker, auto_recovery switched off.
InitLoops == InitWith(OneWorkerConfigs) /\ ~auto_recovery

\* The application before CORSHTTPRequestHandler.initialize_agent: no
\* manager has launched anything yet.  The variables hold the state of
\* the manager stored in cls.mcp_manager, the one the control surface calls.
InitAgent ==
    /\ config \in OneWorkerConfigs \cup DisabledConfigs
    /\ auto_recovery \in BOOLEAN
    /\ port_pool = PortRange
    /\ servers = <<>>
    /\ status = [id \in Ids |-> "stopped"]
    /\ port = [id \in Ids |-> 0]
    /\ process = [id \in Ids |-> "none"]
    /\ orphans = [id \in Ids |-> 0]
    /\ client = [id \in Ids |-> FALSE]
    /\ tools = [id \in Ids |-> <<>>]
    /\ failure_count = [id \in Ids |-> 0]
    /\ error_message = [id \in Ids |-> "none"]
    /\ monitoring_active = FALSE
    /\ pc = [t \in Threads |-> IF t \in Monitors THEN "mon_none"
                               ELSE IF t = "c1" THEN "initialize_agent"
                               ELSE "idle"]
    /\ op = [t \in Threads |-> "none"]
    /\ cur = [t \in Threads |-> "none"]
    /\ todo = [t \in Threads |-> <<>>]
    /\ isize = [t \in Threads |-> 0]
    /\ found = [t \in Threads |-> <<>>]
    /\ ret = [t \in Threads |-> "none"]

\* The workers start_all_servers of a fresh manager tries to launch: those
\* declared, enabled and with auto_start.
AutoStarted(id) ==
    id \in ConfiguredIds /\ config[id].enabled /\ config[id].auto_start

\* The live processes load_mcp_tools can leave behind: it builds a manager of
\* its own, whose start_all_servers spawns a process for every auto-started
\* worker (a launch can fail, a process can exit), and keeps that manager in
\* _global_mcp_manager.  cls.mcp_manager holds no handle of these processes.
LaunchedElsewhere ==
    {f \in [Ids -> 0..1] : \A id \in Ids : f[id] = 1 => AutoStarted(id)}

\* initialize_agent: without an API key no manager is made and the control
\* surface stays unavailable; otherwise cls.mcp_manager = MCPManager() and
\* then load_mcp_tools().
initialize_agent(t) ==
    /\ pc[t] = "initialize_agent"
    /\ \/ /\ pc' = [pc EXCEPT ![t] = "failed"]
          /\ UNCHANGED orphans
       \/ /\ pc' = [pc EXCEPT ![t] = "idle"]
          /\ orphans' \in LaunchedElsewhere
    /\ UNCHANGED <<cfgVars, port_pool, servers, status, port, process, client,
                   tools, failure_count, error_message, monitoring_active>>
    /\ UNCHANGED <<op, cur, todo, isize, found, ret>>

(* ------------------------- call and return ----------------------------- *)

\* Where a thread continues when the start_server or stop_server call it is
\* in returns r ("true", "false") or lets an exception escape ("raise").
\* phase is "start" or "stop": which of the two calls is returning.
AfterReturn(t, r, phase) ==
    IF t \in Monitors
    THEN IF r = "raise" THEN "mon_loop"
         ELSE IF phase = "stop" THEN "start_check" ELSE "mon_iter"
    ELSE IF r = "raise" THEN "idle"
    ELSE IF op[t] = "restart" /\ phase = "stop" THEN "start_check"
    ELSE IF op[t] = "start_all" THEN "start_all_next"
    ELSE IF op[t] = "stop_all" THEN "stop_all_next"
    ELSE IF op[t] = "terminate" THEN "terminate_next"
    ELSE "idle"

Return(t, r, phase) ==
    LET nxt == AfterReturn(t, r, phase) IN
    /\ pc' = [pc EXCEPT ![t] = nxt]
    /\ op' = [op EXCEPT ![t] = IF nxt \in {"idle", "mon_iter", "mon_loop"}
                                THEN "none" ELSE @]
    /\ cur' = [cur EXCEPT ![t] = IF nxt = "start_check" THEN @ ELSE "none"]
    /\ todo' = [todo EXCEPT ![t] = IF nxt \in {"idle", "mon_loop"}
                                    THEN <<>> ELSE @]
    /\ found' = [found EXCEPT ![t] = <<>>]
    /\ ret' = [ret EXCEPT ![t] = IF t \in Callers THEN r ELSE @]
    /\ UNCHANGED isize

\* The thread moves to position p of the same call.
Goto(t, p) ==
    /\ pc' = [pc EXCEPT ![t] = p]
    /\ UNCHANGED <<op, cur, todo, isize, found, ret>>

\* A foreground context begins control call o on worker id at position p.
Call(t, o, id, p, ids) ==
    /\ pc[t] = "idle"
    /\ pc' = [pc EXCEPT ![t] = p]
    /\ op' = [op EXCEPT ![t] = o]
    /\ cur' = [cur EXCEPT ![t] = id]
    /\ todo' = [todo EXCEPT ![t] = ids]
    /\ ret' = [ret EXCEPT ![t] = "none"]
    /\ UNCHANGED <<isize, found>>
    /\ UNCHANGED <<cfgVars, port_pool, regVars, monitoring_active>>

CallStart(t, id) == Call(t, "start", id, "start_check", <<>>)

CallStop(t, id) == Call(t, "stop", id, "stop_term", <<>>)

\* restart_server: stop_server, pause, start_server.
restart_server(t, id) == Call(t, "restart", id, "stop_term", <<>>)

\* start_all_servers: the loop runs over the priority-sorted configuration.
start_all_servers(t) ==
    Call(t, "start_all", "none", "start_all_next", sorted_servers)

\* stop_all_servers: the loop runs over list(self.servers.keys()).
stop_all_servers(t) == Call(t, "stop_all", "none", "stop_all_next", servers)

StartAllNext(t) ==
    /\ pc[t] = "start_all_next"
    /\ IF todo[t] = <<>>
       THEN /\ pc' = [pc EXCEPT ![t] = "idle"]
            /\ op' = [op EXCEPT ![t] = "none"]
            /\ ret' = [ret EXCEPT ![t] = "done"]
            /\ UNCHANGED <<cur, todo>>
       ELSE /\ todo' = [todo EXCEPT ![t] = Tail(@)]
            /\ IF config[Head(todo[t])].auto_start
               THEN /\ pc' = [pc EXCEPT ![t] = "start_check"]
                    /\ cur' = [cur EXCEPT ![t] = Head(todo[t])]
               ELSE UNCHANGED <<pc, cur>>
            /\ UNCHANGED <<op, ret>>
    /\ UNCHANGED <<isize, found>>
    /\ UNCHANGED <<cfgVars, port_pool, regVars, monitoring_active>>

StopAllNext(t) ==
    /\ pc[t] = "stop_all_next"
    /\ IF todo[t] = <<>>
       THEN /\ pc' = [pc EXCEPT ![t] = "idle"]
            /\ op' = [op EXCEPT ![t] = "none"]
            /\ ret' = [ret EXCEPT ![t] = "done"]
            /\ UNCHANGED <<cur, todo>>
       ELSE /\ todo' = [todo EXCEPT ![t] = Tail(@)]
            /\ pc' = [pc EXCEPT ![t] = "stop_term"]
            /\ cur' = [cur EXCEPT ![t] = Head(todo[t])]
            /\ UNCHANGED <<op, ret>>
    /\ UNCHANGED <<isize, found>>
    /\ UNCHANGED <<cfgVars, port_pool, regVars, monitoring_active>>

\* terminate_mcp_processes: stop_all_servers on the global manager, then
\* stop_health_monitoring.
terminate_mcp_processes(t) ==
    Call(t, "terminate", "none", "terminate_next", servers)

\* The loop of stop_all_servers inside terminate_mcp_processes and, when it
\* is exhausted, stop_health_monitoring: the flag is cleared and the bounded
\* join returns.  The context makes no call after the shutdown.
TerminateNext(t) ==
    /\ pc[t] = "terminate_next"
    /\ IF todo[t] = <<>>
       THEN /\ pc' = [pc EXCEPT ![t] = "terminated"]
            /\ op' = [op EXCEPT ![t] = "none"]
            /\ ret' = [ret EXCEPT ![t] = "done"]
            /\ monitoring_active' = FALSE
            /\ UNCHANGED <<cur, todo>>
       ELSE /\ todo' = [todo EXCEPT ![t] = Tail(@)]
            /\ pc' = [pc EXCEPT ![t] = "stop_term"]
            /\ cur' = [cur EXCEPT ![t] = Head(todo[t])]
            /\ UNCHANGED <<op, ret, monitoring_active>>
    /\ UNCHANGED <<isize, found>>
    /\ UNCHANGED <<cfgVars, port_pool, regVars>>

(* ----------------------------- start_server ---------------------------- *)

\* sorted(self.port_pool): the ports of the pool in ascending order.
RECURSIVE SortedPorts(_)
SortedPorts(S) ==
    IF S = {} THEN <<>>
    ELSE LET m == CHOOSE x \in S : \A y \in S : x <= y
         IN <<m>> \o SortedPorts(S \ {m})

\* The ports of the pool in descending order.
RECURSIVE ReverseSortedPorts(_)
ReverseSortedPorts(S) ==
    IF S = {} THEN <<>>
    ELSE LET m == CHOOSE x \in S : \A y \in S : x >= y
         IN <<m>> \o ReverseSortedPorts(S \ {m})

\* The loop of _find_available_port over the ports s: the first one whose
\* bind probe succeeds (bindable: the ports the host lets us bind), 0 when
\* the loop runs out and RuntimeError is raised.
RECURSIVE FirstBindable(_, _)
FirstBindable(s, bindable) ==
    IF s = <<>> THEN 0
    ELSE IF Head(s) \in bindable THEN Head(s)
    ELSE FirstBindable(Tail(s), bindable)

\* Mutation of find_available_port: the pool is not walked in ascending
\* order.
find_available_port_unsorted(pool, bindable) ==
    FirstBindable(ReverseSortedPorts(pool), bindable)

\* _find_available_port, as a function of the pool and of the outcomes of
\* the bind probes.
find_available_port(pool, bindable) ==
    FirstBindable(SortedPorts(pool), bindable)

\* The ports _find_available_port can return and remove from the pool: the
\* probes' outcomes are the host's, for every port the pool may hold.
FreePortChoices ==
    {find_available_port(port_pool, b) :
        b \in SUBSET (PortRange \cup port_pool)} \ {0}

\* _create_server_instance for an untracked, enabled, configured worker: the
\* port is taken from the configuration, or allocated and written back into
\* the configuration document; the record is added to self.servers.
CreateInstance(id, p) ==
    /\ config' = [config EXCEPT ![id].port = p]
    /\ port' = [port EXCEPT ![id] = p]
    /\ servers' = Append(servers, id)
    /\ port_pool' = IF config[id].port = 0 THEN port_pool \ {p} ELSE port_pool

\* server.health.status = STARTING (start_time is not modelled).
MarkStarting(id) == status' = [status EXCEPT ![id] = "starting"]

\* Mutation of AlreadyRunning: the "already running" test is lost.
NeverAlreadyRunning(id) == FALSE

\* if server.health.status == ServerStatus.RUNNING: return True.
AlreadyRunning(id) == status[id] = "running"

\* Mutation of RejectStart: the port is allocated before the tests on the
\* configuration are made.
RejectStartAfterAllocation(t) ==
    /\ Return(t, "false", "start")
    /\ port_pool' = port_pool \ {PortStart}
    /\ UNCHANGED <<cfgVars, regVars, monitoring_active>>

\* The early returns of start_server for an id the configuration does not
\* declare and for a disabled worker: return False, nothing else.
RejectStart(t) ==
    /\ Return(t, "false", "start")
    /\ UNCHANGED <<cfgVars, port_pool, regVars, monitoring_active>>

\* start_server up to the status check: unknown id, disabled worker,
\* creation of the record, "already running", then the STARTING mark.
StartCheck(t) ==
    /\ pc[t] = "start_check"
    /\ LET id == cur[t] IN
       IF id \notin ConfiguredIds \/ ~config[id].enabled
       THEN RejectStart(t)
       ELSE IF ~Tracked(id)
       THEN \/ \E p \in (IF config[id].port = 0 THEN FreePortChoices
                                            ELSE {config[id].port}) :
                 /\ CreateInstance(id, p)
                 /\ MarkStarting(id)
                 /\ Goto(t, "start_spawn")
                 /\ UNCHANGED <<auto_recovery, process, orphans, client, tools,
                                failure_count, error_message,
                                monitoring_active>>
            \/ \* every bind probe fails, or the pool is empty: RuntimeError
               /\ config[id].port = 0
               /\ Return(t, "raise", "start")
               /\ UNCHANGED <<cfgVars, port_pool, regVars, monitoring_active>>
       ELSE IF AlreadyRunning(id)
       THEN /\ Return(t, "true", "start")
            /\ UNCHANGED <<cfgVars, port_pool, regVars, monitoring_active>>
       ELSE /\ MarkStarting(id)
            /\ Goto(t, "start_spawn")
            /\ UNCHANGED <<cfgVars, port_pool, servers, port, process, orphans,
                           client, tools, failure_count, error_message,
                           monitoring_active>>

\* subprocess.Popen: a new process whose handle replaces the old one (a
\* process the old handle referred to keeps running), or an exception, which
\* the except clause turns into FAILED.
StartSpawn(t) ==
    /\ pc[t] = "start_spawn"
    /\ LET id == cur[t] IN
       \/ /\ process[id] = "alive" => orphans[id] < MaxOrphans
          /\ process' = [process EXCEPT ![id] = "alive"]
          /\ orphans' = [orphans EXCEPT
                           ![id] = IF process[id] = "alive" THEN @ + 1 ELSE @]
          /\ Goto(t, "start_poll")
          /\ UNCHANGED <<status, error_message>>
       \/ /\ status' = [status EXCEPT ![id] = "failed"]
          /\ error_message' = [error_message EXCEPT ![id] = "launch"]
          /\ Return(t, "false", "start")
          /\ UNCHANGED <<process, orphans>>
    /\ UNCHANGED <<cfgVars, port_pool, servers, port, client, tools,
                   failure_count, monitoring_active>>

\* Mutation of EarlyExit: the client is created before the liveness test.
EarlyExitAfterConnect(id) ==
    /\ status' = [status EXCEPT ![id] = "failed"]
    /\ error_message' = [error_message EXCEPT ![id] = "exit"]
    /\ client' = [client EXCEPT ![id] = TRUE]

\* if server.process.poll() is not None: FAILED, the exit code and stderr
\* go into error_message; _connect_to_server is not reached.
EarlyExit(id) ==
    /\ status' = [status EXCEPT ![id] = "failed"]
    /\ error_message' = [error_message EXCEPT ![id] = "exit"]
    /\ UNCHANGED client

\* After the startup delay: process.poll().  A process that has exited gives
\* FAILED; otherwise _connect_to_server creates the client and sends the
\* catalogue request.
StartPoll(t) ==
    /\ pc[t] = "start_poll"
    /\ LET id == cur[t] IN
       \/ /\ process' = [process EXCEPT ![id] = "exited"]
          /\ EarlyExit(id)
          /\ Return(t, "false", "start")
       \/ /\ process[id] = "alive"
          /\ client' = [client EXCEPT ![id] = TRUE]
          /\ Goto(t, "start_list")
          /\ UNCHANGED <<process, status, error_message>>
    /\ UNCHANGED <<cfgVars, port_pool, servers, port, orphans, tools,
                   failure_count, monitoring_active>>

\* Mutation of HandshakeFailed: the process is terminated when the
\* handshake fails.
HandshakeFailedKill(id) ==
    /\ status' = [status EXCEPT ![id] = "failed"]
    /\ error_message' = [error_message EXCEPT ![id] = "connect"]
    /\ process' = [process EXCEPT ![id] = IF @ = "alive" THEN "exited" ELSE @]

\* The except clause of _connect_to_server records the error and returns
\* False; start_server sets FAILED.  Nothing is done to the process.
HandshakeFailed(id) ==
    /\ status' = [status EXCEPT ![id] = "failed"]
    /\ error_message' = [error_message EXCEPT ![id] = "connect"]
    /\ UNCHANGED process

\* The answer to client.list_tools(): a catalogue (only a live process
\* answers), or an exception, recorded by _connect_to_server and turned into
\* FAILED by start_server; the process is left as it is.
StartList(t) ==
    /\ pc[t] = "start_list"
    /\ LET id == cur[t] IN
       \/ /\ process[id] = "alive"
          /\ \E cat \in Catalogues :
                found' = [found EXCEPT ![t] = cat]
          /\ pc' = [pc EXCEPT ![t] = "start_finish"]
          /\ UNCHANGED <<op, cur, todo, isize, ret>>
          /\ UNCHANGED <<status, error_message, process>>
       \/ /\ HandshakeFailed(id)
          /\ Return(t, "false", "start")
    /\ UNCHANGED <<cfgVars, port_pool, servers, port, orphans, client,
                   tools, failure_count, monitoring_active>>

\* Mutation of MarkRunning: failure_count is not reset.
MarkRunningKeepCount(id) ==
    /\ status' = [status EXCEPT ![id] = "running"]
    /\ failure_count' = failure_count
    /\ error_message' = [error_message EXCEPT ![id] = "none"]

\* After _connect_to_server returned True: RUNNING, failure_count 0,
\* error_message None.
MarkRunning(id) ==
    /\ status' = [status EXCEPT ![id] = "running"]
    /\ failure_count' = [failure_count EXCEPT ![id] = 0]
    /\ error_message' = [error_message EXCEPT ![id] = "none"]

\* The rest of a successful handshake: the tool list is rebuilt from the
\* catalogue, then status RUNNING, failure_count 0, error_message None.
StartFinish(t) ==
    /\ pc[t] = "start_finish"
    /\ LET id == cur[t] IN
       /\ tools' = [tools EXCEPT ![id] = BuildTools(id, found[t])]
       /\ MarkRunning(id)
    /\ Return(t, "true", "start")
    /\ UNCHANGED <<cfgVars, port_pool, servers, port, process, orphans, client,
                   monitoring_active>>

(* ----------------------------- stop_server ----------------------------- *)

\* stop_server up to the end of the wait: an untracked id returns True; a
\* live process is terminated (killed after the grace period).
StopTerm(t) ==
    /\ pc[t] = "stop_term"
    /\ LET id == cur[t] IN
       IF ~Tracked(id)
       THEN /\ Return(t, "true", "stop")
            /\ UNCHANGED process
       ELSE /\ process' = [process EXCEPT
                             ![id] = IF @ = "alive" THEN "exited" ELSE @]
            /\ Goto(t, "stop_clean")
    /\ UNCHANGED <<cfgVars, port_pool, servers, status, port, orphans, client,
                   tools, failure_count, error_message, monitoring_active>>

\* Mutation of ReleasePort: the port is not handed back.
ReleasePortNever(id) == port_pool' = port_pool

\* Mutation of ReleasePort: a port that is already in the pool is taken out.
ReleasePortToggle(id) ==
    port_pool' = IF port[id] \in port_pool THEN port_pool \ {port[id]}
                 ELSE port_pool \cup {port[id]}

\* The port stop_server hands back: port_pool.add(server.port).
ReleasePort(id) ==
    port_pool' = IF port[id] # 0 THEN port_pool \cup {port[id]} ELSE port_pool

\* The clean-up of stop_server: STOPPED, client None, tools cleared, port
\* returned to the pool.  server.process and server.port are not reset.
StopClean(t) ==
    /\ pc[t] = "stop_clean"
    /\ LET id == cur[t] IN
       /\ status' = [status EXCEPT ![id] = "stopped"]
       /\ client' = [client EXCEPT ![id] = FALSE]
       /\ tools' = [tools EXCEPT ![id] = <<>>]
       /\ ReleasePort(id)
    /\ Return(t, "true", "stop")
    /\ UNCHANGED <<cfgVars, servers, port, process, orphans, failure_count,
                   error_message, monitoring_active>>

(* --------------------------- health monitor ---------------------------- *)

\* Mutation of AlreadyMonitoring: the flag is not looked at.
AlreadyMonitoringNever == FALSE

\* if self.monitoring_active: return.
AlreadyMonitoring == monitoring_active

\* start_health_monitoring: nothing when already active; otherwise the flag
\* is set and a monitor thread is created (M: the threads that can be
\* created; one that has ended can be created anew).
start_health_monitoring(t, M) ==
    /\ pc[t] = "idle"
    /\ IF AlreadyMonitoring
       THEN UNCHANGED <<monitoring_active, pc>>
       ELSE /\ monitoring_active' = TRUE
            /\ \E m \in M :
                  /\ pc[m] \in {"mon_none", "mon_exit"}
                  /\ pc' = [pc EXCEPT ![m] = "mon_loop"]
    /\ UNCHANGED <<op, cur, todo, isize, found, ret>>
    /\ UNCHANGED <<cfgVars, port_pool, regVars>>

\* stop_health_monitoring: the flag is cleared; the join is bounded, so the
\* caller goes on whether or not the loop has ended.
stop_health_monitoring(t) ==
    /\ pc[t] = "idle"
    /\ monitoring_active
    /\ monitoring_active' = FALSE
    /\ UNCHANGED <<cfgVars, port_pool, regVars, thrVars>>

\* while self.monitoring_active: the loop ends, or an iteration over
\* self.servers.items() begins.
MonLoop(m) ==
    /\ pc[m] = "mon_loop"
    /\ IF monitoring_active
       THEN /\ pc' = [pc EXCEPT ![m] = "mon_iter"]
            /\ todo' = [todo EXCEPT ![m] = servers]
            /\ isize' = [isize EXCEPT ![m] = Len(servers)]
       ELSE /\ pc' = [pc EXCEPT ![m] = "mon_exit"]
            /\ UNCHANGED <<todo, isize>>
    /\ UNCHANGED <<op, cur, found, ret>>
    /\ UNCHANGED <<cfgVars, port_pool, regVars, monitoring_active>>

\* Mutation of Probeable: the loop tests for the wrong status.
ProbeableWhenUnhealthy(id) == status[id] = "unhealthy"

\* The loop's test: if server.health.status == ServerStatus.RUNNING.
Probeable(id) == status[id] = "running"

\* One step of "for server_id, server in self.servers.items()": the
\* iterator raises when the dict has grown (the loop's except clause sleeps
\* and the loop starts over), the loop sleeps when it is exhausted, a worker
\* that is not RUNNING or has health checks disabled is skipped, and for a
\* RUNNING worker whose interval has elapsed the catalogue request is sent
\* (without a client the probe fails at once).
MonIter(m) ==
    /\ pc[m] = "mon_iter"
    /\ IF Len(servers) # isize[m] \/ todo[m] = <<>>
       THEN /\ pc' = [pc EXCEPT ![m] = "mon_loop"]
            /\ todo' = [todo EXCEPT ![m] = <<>>]
            /\ UNCHANGED cur
       ELSE LET id == Head(todo[m]) IN
            /\ todo' = [todo EXCEPT ![m] = Tail(@)]
            /\ IF ~Probeable(id) \/ ~config[id].health_enabled
               THEN UNCHANGED <<pc, cur>>
               ELSE \/ \* the interval has not elapsed since last_check
                       UNCHANGED <<pc, cur>>
                    \/ /\ pc' = [pc EXCEPT ![m] = IF client[id]
                                                  THEN "mon_probe"
                                                  ELSE "mon_fail"]
                       /\ cur' = [cur EXCEPT ![m] = id]
    /\ UNCHANGED <<op, isize, found, ret>>
    /\ UNCHANGED <<cfgVars, port_pool, regVars, monitoring_active>>

\* The answer to the probe's client.list_tools(): only a live process
\* answers; a timeout or a refused connection is always possible.
MonProbe(m) ==
    /\ pc[m] = "mon_probe"
    /\ \/ /\ process[cur[m]] = "alive"
          /\ Goto(m, "mon_ok")
       \/ Goto(m, "mon_fail")
    /\ UNCHANGED <<cfgVars, port_pool, regVars, monitoring_active>>

\* After a successful probe: failure_count 0, error_message None.
ProbeSucceeded(id) ==
    /\ failure_count' = [failure_count EXCEPT ![id] = 0]
    /\ error_message' = [error_message EXCEPT ![id] = "none"]

MonOk(m) ==
    /\ pc[m] = "mon_ok"
    /\ ProbeSucceeded(cur[m])
    /\ pc' = [pc EXCEPT ![m] = "mon_iter"]
    /\ cur' = [cur EXCEPT ![m] = "none"]
    /\ UNCHANGED <<op, todo, isize, found, ret>>
    /\ UNCHANGED <<cfgVars, port_pool, servers, status, port, process, orphans,
                   client, tools, monitoring_active>>

\* Mutation of RetriesExhausted: the budget is compared with ">".
RetriesExhaustedLate(id) == failure_count[id] + 1 > config[id].retry_count

\* if server.health.failure_count >= retry_count, after the increment.
RetriesExhausted(id) == failure_count[id] + 1 >= config[id].retry_count

\* Mutation of AutoRecovery: the setting is ignored.
AutoRecoveryAlways == TRUE

\* if self.config.get("global_settings", {}).get("auto_recovery", True).
AutoRecovery == auto_recovery

\* Mutation of RestartAfterFailure: restart_server is called after every
\* failed probe, not only when the retry budget is used up.
RestartOnEveryFailure(id) == AutoRecovery

\* restart_server is called inside both tests: the retry budget is used up
\* and auto_recovery is on.
RestartAfterFailure(id) == RetriesExhausted(id) /\ AutoRecovery

\* The except clause of _check_server_health: failure_count += 1 and the
\* error is recorded; at retry_count the worker is marked UNHEALTHY and,
\* with auto_recovery, the monitor thread calls restart_server.
MonFail(m) ==
    /\ pc[m] = "mon_fail"
    /\ LET id == cur[m] IN
       /\ failure_count' = [failure_count EXCEPT ![id] = @ + 1]
       /\ error_message' = [error_message EXCEPT ![id] = "probe"]
       /\ status' = [status EXCEPT
                       ![id] = IF RetriesExhausted(id) THEN "unhealthy" ELSE @]
       /\ IF RestartAfterFailure(id)
          THEN /\ pc' = [pc EXCEPT ![m] = "stop_term"]
               /\ op' = [op EXCEPT ![m] = "tick"]
               /\ UNCHANGED cur
          ELSE /\ pc' = [pc EXCEPT ![m] = "mon_iter"]
               /\ cur' = [cur EXCEPT ![m] = "none"]
               /\ UNCHANGED op
    /\ UNCHANGED <<todo, isize, found, ret>>
    /\ UNCHANGED <<cfgVars, port_pool, servers, port, process, orphans, client,
                   tools, monitoring_active>>

(* ------------------------------- queries ------------------------------- *)

\* get_server_status: None for an id that is not in self.servers, otherwise
\* the record (of which the status is kept here).
get_server_status(id) == IF Tracked(id) THEN status[id] ELSE "None"

\* Mutation of ServesTools: only Stopped workers are left out.
ServesToolsUnlessStopped(id) == status[id] # "stopped"

\* if server.health.status == ServerStatus.RUNNING, in both tool queries.
ServesTools(id) == status[id] = "running"

\* get_all_tools over the records s: the tool lists of the RUNNING workers,
\* one after the other.
RECURSIVE AllToolsOf(_)
AllToolsOf(s) ==
    IF s = <<>> THEN <<>>
    ELSE (IF ServesTools(Head(s)) THEN tools[Head(s)] ELSE <<>>)
         \o AllToolsOf(Tail(s))

get_all_tools == AllToolsOf(servers)

\* get_tools_by_category over the records s: the tool lists of the RUNNING
\* workers whose configuration has the category.
RECURSIVE CategoryToolsOf(_, _)
CategoryToolsOf(s, category) ==
    IF s = <<>> THEN <<>>
    ELSE (IF ServesTools(Head(s)) /\ config[Head(s)].category = category
          THEN tools[Head(s)] ELSE <<>>)
         \o CategoryToolsOf(Tail(s), category)

get_tools_by_category(category) == CategoryToolsOf(servers, category)

(* ----------------------- configuration validator ----------------------- *)
(* MCPConfigValidator (src/mcp_validator.py), which _load_config runs on   *)
(* the configuration document before the manager uses it.  A document is   *)
(* JSON, so a field can hold a value of any type; a value is modelled by   *)
(* its type and by what the validator looks at.  Strings stand for         *)
(* themselves; "python" is a command found in PATH, "nosuch" is not.       *)

\* The key is missing from its object.
Absent == [t |-> "absent"]

Number(n) == [t |-> "int", n |-> n]

Text(s) == [t |-> "str", s |-> s]

\* A JSON array of len elements.
Array(len) == [t |-> "list", len |-> len]

\* dict.get(key, default)
Get(x, default) == IF x.t = "absent" THEN default ELSE x

\* Python truth value of x (of `x` in `if x:` / `if not x:`).
Truthy(x) ==
    CASE x.t = "absent" -> FALSE
      [] x.t = "int" -> x.n # 0
      [] x.t = "str" -> x.s # ""
      [] x.t = "list" -> x.len # 0
      [] OTHER -> TRUE

\* isinstance(x, int)
IsInt(x) == x.t = "int"

\* x >= y is defined: both integers (strings and lists of the model are
\* never compared with each other by the validator's inputs below).
Comparable(x, y) == x.t = "int" /\ y.t = "int"

\* hash(x) is defined: a list or an object is unhashable.
Hashable(x) == x.t \in {"int", "str"}

\* x == y for two hashable values.
SameValue(x, y) ==
    /\ x.t = y.t
    /\ IF x.t = "int" THEN x.n = y.n ELSE x.s = y.s

\* shutil.which(command) finds the command.
Which(command) == command.s \in {"python", "sudo"}

\* any(dangerous in command.lower() for dangerous in dangerous_commands)
Dangerous(command) == command.s \in {"sudo"}

\* _is_port_in_use(port): something listens on the port; every exception of
\* the connection attempt is caught and means no.
is_port_in_use(p) == p.t = "int" /\ p.n \in {8080}

\* The report a validation starts from.  raised is not a field of the
\* program's report: it records that an exception escaped the validation.
\* Then there is no report: once raised is set it stays set, and the other
\* fields mean nothing.
NewReport ==
    [valid |-> TRUE, errors |-> <<>>, warnings |-> <<>>,
     recommendations |-> <<>>, raised |-> FALSE]

(* Each validation below is the sequence of its statements; a statement   *)
(* acts on the report when its guard holds, and the guard is the          *)
(* conjunction of the conditions under which the code reaches it and of   *)
(* its own condition.                                                     *)

\* if c: an exception escapes.
RaiseIf(c, r) == [r EXCEPT !.raised = @ \/ c]

\* Mutant of ErrorIf: the error is appended, valid is left alone.
ErrorIfKeepValid(c, r, e) ==
    [r EXCEPT !.errors = IF c THEN Append(@, e) ELSE @]

\* if c: result["errors"].append(e); result["valid"] = False
ErrorIf(c, r, e) ==
    [r EXCEPT !.errors = IF c THEN Append(@, e) ELSE @,
              !.valid = IF c THEN FALSE ELSE @]

\* if c: result["warnings"].append(w)
WarnIf(c, r, w) == [r EXCEPT !.warnings = IF c THEN Append(@, w) ELSE @]

\* if c: result["recommendations"].append(x)
RecommendIf(c, r, x) ==
    [r EXCEPT !.recommendations = IF c THEN Append(@, x) ELSE @]

validate_required_fields(sc, r) ==
    LET r1 == ErrorIf(sc.command.t = "absent", r,
                      "Missing required field: command")
        r2 == RecommendIf(sc.name.t = "absent", r1, "Consider adding 'name'")
        r3 == RecommendIf(sc.description.t = "absent", r2,
                          "Consider adding 'description'")
    IN RecommendIf(sc.category.t = "absent", r3, "Consider adding 'category'")

validate_command(sc, r) ==
    LET command == sc.command
        \* not the early return of `if not command`
        checked == Truthy(command)
        \* shutil.which(command) and command.lower() need a string
        string == checked /\ command.t = "str"
        r1 == RaiseIf(checked /\ ~string, r)
        r2 == WarnIf(string /\ ~Which(command), r1,
                     "Command not found in PATH")
        r3 == ErrorIf(string /\ Get(sc.args, Array(0)).t # "list", r2,
                      "Server args must be a list")
    IN WarnIf(string /\ Dangerous(command), r3,
              "Potentially dangerous command detected")

validate_connection(sc, r) ==
    LET connection == sc.connection
        \* `"port" in connection` and connection.get need an object; a
        \* missing connection is {}
        object == connection.t = "dict"
        p == connection.port
        host == connection.host
        startup_delay == Get(connection.startup_delay, Number(3))
        has_port == object /\ p.t # "absent"
        invalid_port == has_port /\ (~IsInt(p) \/ p.n < 1 \/ p.n > 65535)
        r1 == RaiseIf(connection.t # "absent" /\ ~object, r)
        r2 == ErrorIf(invalid_port, r1, "Invalid port number")
        r3 == WarnIf(has_port /\ ~invalid_port /\ p.n < 1024, r2,
                     "Port requires elevated privileges")
        r4 == ErrorIf(/\ object
                      /\ host.t # "absent"
                      /\ (host.t # "str" \/ host.s = ""),
                      r3, "Host must be a non-empty string")
    IN WarnIf(object /\ (~IsInt(startup_delay) \/ startup_delay.n < 0), r4,
              "startup_delay should be a non-negative integer")

\* health_check of a worker entry that has none: {}.
NoHealthCheck ==
    [t |-> "dict", interval |-> Absent, timeout |-> Absent,
     retry_count |-> Absent]

validate_health_check(sc, r) ==
    LET health_check == Get(sc.health_check, NoHealthCheck)
        \* not the early return of a health_check that is no object
        object == health_check.t = "dict"
        interval == Get(health_check.interval, Number(30))
        timeout == Get(health_check.timeout, Number(10))
        retry_count == Get(health_check.retry_count, Number(3))
        \* `timeout >= interval` is evaluated whatever their types are
        compared == object /\ Comparable(timeout, interval)
        r1 == ErrorIf(~object, r, "health_check must be an object")
        r2 == WarnIf(object /\ (~IsInt(interval) \/ interval.n < 5), r1,
                     "Health check interval should be at least 5 seconds")
        r3 == WarnIf(object /\ (~IsInt(timeout) \/ timeout.n < 1), r2,
                     "Health check timeout should be at least 1 second")
        r4 == RaiseIf(object /\ ~compared, r3)
        r5 == WarnIf(compared /\ timeout.n >= interval.n, r4,
                     "Health check timeout should be less than interval")
    IN WarnIf(compared /\ (~IsInt(retry_count) \/ retry_count.n < 1), r5,
              "Health check retry_count should be at least 1")

\* The warnings of the environment's variables, one variable after the
\* other; a variable is [name_ok, value_str]: whether its name passes the
\* naming test and whether its value is a string.
RECURSIVE EnvironmentWarnings(_, _)
EnvironmentWarnings(items, r) ==
    IF items = <<>> THEN r
    ELSE
        LET r1 == WarnIf(~Head(items).name_ok, r,
                         "Environment variable name may be invalid")
            r2 == WarnIf(~Head(items).value_str, r1,
                         "Environment variable should be a string")
        IN EnvironmentWarnings(Tail(items), r2)

validate_environment(sc, r) ==
    LET environment == sc.environment
        object == environment.t = "dict"
        r1 == ErrorIf(environment.t # "absent" /\ ~object, r,
                      "environment must be an object")
    IN EnvironmentWarnings(IF object THEN environment.items ELSE <<>>, r1)

valid_categories ==
    {"workout", "testing", "automation", "data", "ai", "custom"}

validate_categories_capabilities(sc, r) ==
    LET category == Get(sc.category, Text("custom"))
        capabilities == Get(sc.capabilities, Array(0))
        tags == Get(sc.tags, Array(0))
        r1 == WarnIf(~(category.t = "str" /\ category.s \in valid_categories),
                     r, "Unknown category")
        r2 == ErrorIf(Truthy(capabilities) /\ capabilities.t # "list", r1,
                      "capabilities must be a list")
    IN ErrorIf(Truthy(tags) /\ tags.t # "list", r2, "tags must be a list")

validate_server(sc) ==
    validate_categories_capabilities(sc,
        validate_environment(sc,
            validate_health_check(sc,
                validate_connection(sc,
                    validate_command(sc,
                        validate_required_fields(sc, NewReport))))))

\* The messages ms of worker id as validate_config reports them:
\* f"[{server_id}] {message}".  A message of the document itself is a
\* plain string.
RECURSIVE Prefixed(_, _)
Prefixed(id, ms) ==
    IF ms = <<>> THEN <<>>
    ELSE <<<<id, Head(ms)>>>> \o Prefixed(id, Tail(ms))

\* The ids of the document's workers, in the document's order.
DocOrder(mcp_servers) ==
    SelectSeq(IdOrder, LAMBDA id : id \in DOMAIN mcp_servers)

\* The loop of validate_config over the workers ids of mcp_servers.
RECURSIVE ValidateServers(_, _, _)
ValidateServers(ids, mcp_servers, r) ==
    IF ids = <<>> THEN r
    ELSE
        LET server_id == Head(ids)
            sv == validate_server(mcp_servers[server_id])
        IN ValidateServers(Tail(ids), mcp_servers,
               [r EXCEPT
                   !.server_validations = (server_id :> sv) @@ @,
                   !.valid = IF sv.valid THEN @ ELSE FALSE,
                   !.errors = IF sv.valid THEN @
                              ELSE @ \o Prefixed(server_id, sv.errors),
                   !.warnings = @ \o Prefixed(server_id, sv.warnings),
                   !.recommendations =
                       @ \o Prefixed(server_id, sv.recommendations),
                   !.raised = @ \/ sv.raised])

validate_global_settings(doc, r) ==
    LET global_settings == doc.global_settings
        max_concurrent ==
            Get(global_settings.max_concurrent_servers, Number(10))
        startup_timeout == Get(global_settings.startup_timeout, Number(30))
        port_range == global_settings.port_range
        \* `if port_range:`, and port_range.get needs an object
        checked == Truthy(port_range)
        object == checked /\ port_range.t = "dict"
        start_port == Get(port_range.start, Number(8000))
        end_port == Get(port_range.end, Number(9000))
        integers == object /\ IsInt(start_port) /\ IsInt(end_port)
        ordered == integers /\ start_port.n < end_port.n
        r1 == WarnIf(~IsInt(max_concurrent) \/ max_concurrent.n < 1, r,
                     "max_concurrent_servers should be a positive integer")
        r2 == WarnIf(~IsInt(startup_timeout) \/ startup_timeout.n < 5, r1,
                     "startup_timeout should be at least 5 seconds")
        r3 == RaiseIf(checked /\ ~object, r2)
        r4 == ErrorIf(object /\ ~integers, r3,
                      "Port range start and end must be integers")
        r5 == ErrorIf(integers /\ ~ordered, r4,
                      "Port range start must be less than end")
    IN WarnIf(ordered /\ end_port.n - start_port.n < 10, r5,
              "Small port range may cause conflicts")

\* The loop of _validate_port_conflicts; used is used_ports, as a sequence.
RECURSIVE PortConflicts(_, _, _, _)
PortConflicts(ids, mcp_servers, used, r) ==
    IF ids = <<>> THEN r
    ELSE
        LET connection == mcp_servers[Head(ids)].connection
            object == connection.t = "dict"
            p == connection.port
            has_port == object /\ p.t # "absent"
            \* `port in used_ports` hashes the port
            hashable == has_port /\ Hashable(p)
            conflict ==
                hashable /\ \E i \in 1..Len(used) : SameValue(used[i], p)
            fresh == hashable /\ ~conflict
            r1 == RaiseIf(\/ connection.t # "absent" /\ ~object
                          \/ has_port /\ ~hashable, r)
            r2 == ErrorIf(conflict, r1, "Port conflict")
        IN PortConflicts(Tail(ids), mcp_servers,
                         IF fresh THEN Append(used, p) ELSE used,
                         WarnIf(fresh /\ is_port_in_use(p), r2,
                                "Port appears to be already in use"))

validate_port_conflicts(doc, r) ==
    PortConflicts(DocOrder(doc.mcp_servers), doc.mcp_servers, <<>>, r)

\* priority of a worker entry, 5 when it has none.
PriorityOf(sc) == Get(sc.priority, Number(5))

ValidPriority(p) == IsInt(p) /\ p.n >= 1 /\ p.n <= 10

\* The first loop of _validate_priorities: one warning for each worker
\* whose priority is not an integer of 1..10.
RECURSIVE PriorityWarnings(_, _, _)
PriorityWarnings(ids, mcp_servers, r) ==
    IF ids = <<>> THEN r
    ELSE PriorityWarnings(Tail(ids), mcp_servers,
             WarnIf(~ValidPriority(PriorityOf(mcp_servers[Head(ids)])), r,
                    <<Head(ids), "invalid priority (should be 1-10)">>))

\* The last loop of _validate_priorities: one recommendation for each
\* priority that more than one of the workers ids has, in the order of the
\* priorities' first workers.
RECURSIVE DuplicatePriorities(_, _, _, _)
DuplicatePriorities(ids, all, mcp_servers, r) ==
    IF ids = <<>> THEN r
    ELSE
        LET mine == PriorityOf(mcp_servers[Head(ids)])
            same == SelectSeq(all, LAMBDA id :
                        /\ ValidPriority(PriorityOf(mcp_servers[id]))
                        /\ PriorityOf(mcp_servers[id]).n = mine.n)
        IN DuplicatePriorities(Tail(ids), all, mcp_servers,
               RecommendIf(/\ ValidPriority(mine)
                           /\ Len(same) > 1
                           /\ Head(same) = Head(ids),
                           r, "Multiple servers have the same priority"))

validate_priorities(doc, r) ==
    LET ids == DocOrder(doc.mcp_servers) IN
    DuplicatePriorities(ids, ids, doc.mcp_servers,
                        PriorityWarnings(ids, doc.mcp_servers, r))

\* What jsonschema.validate does with the document: there is no schema
\* ("none": the schema file is missing or unreadable), the document passes,
\* or it fails with a ValidationError.
SchemaVerdicts == {"none", "pass", "fail"}

\* validate_config(doc) of a validator whose schema gives verdict schema.
validate_config(doc, schema) ==
    validate_priorities(doc,
        validate_port_conflicts(doc,
            validate_global_settings(doc,
                ValidateServers(DocOrder(doc.mcp_servers), doc.mcp_servers,
                    ErrorIf(schema = "fail",
                            [valid |-> TRUE, errors |-> <<>>,
                             warnings |-> <<>>, recommendations |-> <<>>,
                             server_validations |-> <<>>, raised |-> FALSE],
                            "Schema validation failed")))))

(* The configuration documents the validator is run on. *)

\* A worker entry that draws no error and no warning.
BaseEntry ==
    [name |-> Text("worker"), description |-> Text("a worker"),
     category |-> Text("workout"), command |-> Text("python"),
     args |-> Array(1), connection |-> Absent, health_check |-> Absent,
     environment |-> Absent, capabilities |-> Array(1), tags |-> Absent,
     priority |-> Absent]

Connection(p) ==
    [t |-> "dict", port |-> p, host |-> Absent, startup_delay |-> Absent]

HealthCheck(interval, timeout) ==
    [t |-> "dict", interval |-> interval, timeout |-> timeout,
     retry_count |-> Absent]

PortValues ==
    {Absent, Number(8080), Number(80), Number(70000), Text("8080"), Array(1)}

ConnectionValues ==
    {Absent, Text("tcp")} \cup {Connection(p) : p \in PortValues}

HealthCheckValues ==
    {Absent, Text("on"), HealthCheck(Number(30), Number(10)),
     HealthCheck(Number(5), Number(10)), HealthCheck(Text("30"), Absent),
     HealthCheck(Absent, Text("10"))}

CommandValues ==
    {Absent, Text("python"), Text("nosuch"), Text("sudo"), Number(5)}

ArgsValues == {Absent, Array(1), Text("-v")}

\* Entries of the first worker: every combination of command and args,
\* every combination of connection and health check, and one entry for
\* each remaining check.
FirstEntries ==
    {[BaseEntry EXCEPT !.command = c, !.args = g] :
        c \in CommandValues, g \in ArgsValues}
    \cup
    {[BaseEntry EXCEPT !.connection = cn, !.health_check = h] :
        cn \in ConnectionValues, h \in HealthCheckValues}
    \cup
    {[BaseEntry EXCEPT !.environment = Text("PATH")],
     [BaseEntry EXCEPT !.environment =
         [t |-> "dict",
          items |-> <<[name_ok |-> FALSE, value_str |-> TRUE],
                      [name_ok |-> TRUE, value_str |-> FALSE]>>]],
     [BaseEntry EXCEPT !.category = Text("misc"), !.name = Absent],
     [BaseEntry EXCEPT !.category = Absent, !.description = Absent],
     [BaseEntry EXCEPT !.capabilities = Text("tools")],
     [BaseEntry EXCEPT !.tags = Text("tag")],
     [BaseEntry EXCEPT !.connection =
         [Connection(Number(8080)) EXCEPT !.host = Text("")]],
     [BaseEntry EXCEPT !.connection =
         [Connection(Number(8080)) EXCEPT !.host = Text("localhost"),
                                       !.startup_delay = Number(-1)]]}

\* Entries of the second worker: its port and its priority vary.
SecondEntries ==
    {[BaseEntry EXCEPT !.connection = cn, !.priority = p] :
        cn \in {Absent, Connection(Number(8080)), Connection(Array(1))},
        p \in {Absent, Number(1), Number(11)}}

PortRangeValues ==
    {Absent,
     [t |-> "dict", start |-> Number(PortStart), end |-> Number(PortEnd)],
     [t |-> "dict", start |-> Number(PortEnd), end |-> Number(PortStart)],
     [t |-> "dict", start |-> Text("8000"), end |-> Number(PortEnd)],
     Number(8000)}

GlobalSettings(port_range) ==
    [max_concurrent_servers |-> Absent, startup_timeout |-> Number(1),
     port_range |-> port_range]

\* The documents: one worker or two with or without a port range, and one
\* document for each value of the port range.
ConfigDocuments ==
    {[mcp_servers |-> ms, global_settings |-> GlobalSettings(pr)] :
        ms \in {[id \in {"a"} |-> e] : e \in FirstEntries}
               \cup {[id \in Ids |-> IF id = "a" THEN ea ELSE eb] :
                        ea \in FirstEntries, eb \in SecondEntries},
        pr \in {Absent,
                [t |-> "dict", start |-> Number(PortStart),
                 end |-> Number(PortEnd)]}}
    \cup
    {[mcp_servers |-> [id \in {"a"} |-> BaseEntry],
      global_settings |-> GlobalSettings(pr)] : pr \in PortRangeValues}

(* ---------------------------- _load_config ----------------------------- *)

\* Before _load_config: the manager __init__ has built so far, with the
\* configuration document read from the file in config (the whole
\* document, not only its workers).
InitLoadWith(docs) ==
    /\ config \in docs
    /\ auto_recovery = TRUE
    /\ port_pool = {}
    /\ servers = <<>>
    /\ status = [id \in Ids |-> "stopped"]
    /\ port = [id \in Ids |-> 0]
    /\ process = [id \in Ids |-> "none"]
    /\ orphans = [id \in Ids |-> 0]
    /\ client = [id \in Ids |-> FALSE]
    /\ tools = [id \in Ids |-> <<>>]
    /\ failure_count = [id \in Ids |-> 0]
    /\ error_message = [id \in Ids |-> "none"]
    /\ monitoring_active = FALSE
    /\ pc = [t \in Threads |->
                IF t \in Monitors THEN "mon_none"
                ELSE IF t = "c1" THEN "load_config" ELSE "idle"]
    /\ op = [t \in Threads |-> "none"]
    /\ cur = [t \in Threads |-> "none"]
    /\ todo = [t \in Threads |-> <<>>]
    /\ isize = [t \in Threads |-> 0]
    /\ found = [t \in Threads |-> <<>>]
    /\ ret = [t \in Threads |-> "none"]

InitLoad == InitLoadWith(ConfigDocuments)

\* Documents of one worker with or without a pinned port, in and out of
\* 1..65535, and with a well-typed or an ill-typed health check, and a
\* document of two workers of which the first pins a port out of 1..65535,
\* and one of two workers of which the first pins a port that is valid and
\* lies outside the port_range.
LaunchDocuments ==
    {[mcp_servers |-> [id \in {"a"} |->
                          [BaseEntry EXCEPT !.connection = cn,
                                            !.health_check = h]],
      global_settings |->
          GlobalSettings([t |-> "dict", start |-> Number(PortStart),
                          end |-> Number(PortEnd)])] :
        cn \in {Absent, Connection(Number(PortStart)),
                Connection(Number(70000)), Connection(Number(0))},
        h \in {Absent, HealthCheck(Absent, Text("10"))}}
    \cup
    {[mcp_servers |-> [id \in Ids |->
                          IF id = "a"
                          THEN [BaseEntry EXCEPT
                                   !.connection = Connection(Number(70000))]
                          ELSE BaseEntry],
      global_settings |-> GlobalSettings(Absent)]}
    \cup
    {[mcp_servers |-> [id \in Ids |->
                          IF id = "a"
                          THEN [BaseEntry EXCEPT
                                   !.connection =
                                       Connection(Number(PortEnd + 1))]
                          ELSE BaseEntry],
      global_settings |->
          GlobalSettings([t |-> "dict", start |-> Number(PortStart),
                          end |-> Number(PortEnd)])]}

InitLaunch == InitLoadWith(LaunchDocuments)

\* set(range(port_range["start"], port_range["end"] + 1)) of a validated
\* document; without a port_range it is the default range, which PortRange
\* stands for.
PoolOf(port_range) ==
    IF port_range.t = "absent" THEN PortRange
    ELSE port_range.start.n .. port_range.end.n

\* An entry of a validated document as the manager's operations read it:
\* priority 5, retry_count 3 and no pinned port unless the entry says
\* otherwise.
ReadEntry(sc) ==
    WorkerConfig(PriorityOf(sc).n,
                 IF sc.connection.t = "dict"
                        /\ sc.connection.port.t # "absent"
                 THEN sc.connection.port.n ELSE 0,
                 Get(Get(sc.health_check, NoHealthCheck).retry_count,
                     Number(3)).n)

ReadConfig(doc) ==
    [id \in DOMAIN doc.mcp_servers |-> ReadEntry(doc.mcp_servers[id])]

\* Mutant of Accepted: the report's valid field is not looked at.
AcceptedUnchecked(validation_result) == ~validation_result.raised

\* validate_config returned, and `if validation_result["valid"]` holds.
Accepted(validation_result) ==
    ~validation_result.raised /\ validation_result.valid

\* _load_config: the document is validated; "loaded" when it is valid,
\* "invalid" is the ValueError raised for a report with valid = False, and
\* "raise" is an exception of the validator itself, which _load_config does
\* not catch.  Either exception leaves __init__, and there is no manager.
\* With read, config holds from then on the entries of the loaded document
\* as the manager's operations read them; without, it keeps the document.
LoadConfig(t, read) ==
    /\ pc[t] = "load_config"
    /\ \E schema \in SchemaVerdicts :
           LET validation_result == validate_config(config, schema)
               loaded == Accepted(validation_result)
           IN /\ ret' = [ret EXCEPT ![t] =
                            IF validation_result.raised THEN "raise"
                            ELSE IF loaded THEN "loaded"
                            ELSE "invalid"]
              /\ pc' = [pc EXCEPT ![t] = IF loaded THEN "idle" ELSE "failed"]
              /\ port_pool' =
                     IF loaded THEN PoolOf(config.global_settings.port_range)
                     ELSE port_pool
              /\ config' = IF loaded /\ read THEN ReadConfig(config)
                           ELSE config
    /\ UNCHANGED <<auto_recovery, regVars, monitoring_active>>
    /\ UNCHANGED <<op, cur, todo, isize, found>>

load_config(t) == LoadConfig(t, FALSE)

(* --------------------------- specification ----------------------------- *)

\* Steps of the foreground control contexts.
ControlNext(C) ==
    \/ \E t \in C, id \in Ids : CallStart(t, id)
    \/ \E t \in C, id \in Ids : CallStop(t, id)
    \/ \E t \in C, id \in Ids : restart_server(t, id)
    \/ \E t \in C : start_all_servers(t)
    \/ \E t \in C : stop_all_servers(t)
    \/ \E t \in C : StartAllNext(t)
    \/ \E t \in C : StopAllNext(t)
    \/ \E t \in Threads : StartCheck(t)
    \/ \E t \in Threads : StartSpawn(t)
    \/ \E t \in Threads : StartPoll(t)
    \/ \E t \in Threads : StartList(t)
    \/ \E t \in Threads : StartFinish(t)
    \/ \E t \in Threads : StopTerm(t)
    \/ \E t \in Threads : StopClean(t)

\* Steps that start, stop or belong to the health-monitor thread.
MonitorNext(C) ==
    \/ \E t \in C : start_health_monitoring(t, FirstMonitor)
    \/ \E t \in C : stop_health_monitoring(t)
    \/ \E m \in Monitors : MonLoop(m)
    \/ \E m \in Monitors : MonIter(m)
    \/ \E m \in Monitors : MonProbe(m)
    \/ \E m \in Monitors : MonOk(m)
    \/ \E m \in Monitors : MonFail(m)

\* Steps of control contexts that only start and stop all workers.
BatchNext(C) ==
    \/ \E t \in C : start_all_servers(t)
    \/ \E t \in C : stop_all_servers(t)
    \/ \E t \in C : StartAllNext(t)
    \/ \E t \in C : StopAllNext(t)
    \/ \E t \in C : StartCheck(t)
    \/ \E t \in C : StartSpawn(t)
    \/ \E t \in C : StartPoll(t)
    \/ \E t \in C : StartList(t)
    \/ \E t \in C : StartFinish(t)
    \/ \E t \in C : StopTerm(t)
    \/ \E t \in C : StopClean(t)

\* Steps of a control context that starts single workers and starts and
\* stops the monitor, and of the monitor threads it creates.
LoopsNext(C) ==
    \/ \E t \in C, id \in Ids : CallStart(t, id)
    \/ \E t \in C : StartCheck(t)
    \/ \E t \in C : StartSpawn(t)
    \/ \E t \in C : StartPoll(t)
    \/ \E t \in C : StartList(t)
    \/ \E t \in C : StartFinish(t)
    \/ \E t \in C : start_health_monitoring(t, Monitors)
    \/ \E t \in C : stop_health_monitoring(t)
    \/ \E m \in Monitors : MonLoop(m)
    \/ \E m \in Monitors : MonIter(m)
    \/ \E m \in Monitors : MonProbe(m)
    \/ \E m \in Monitors : MonOk(m)
    \/ \E m \in Monitors : MonFail(m)

\* Steps of the application's life: a control context that starts all
\* workers and the monitor and shuts down, and the monitor thread.
ShutdownNext(C) ==
    \/ \E t \in C : start_all_servers(t)
    \/ \E t \in C : StartAllNext(t)
    \/ \E t \in C : start_health_monitoring(t, FirstMonitor)
    \/ \E t \in C : terminate_mcp_processes(t)
    \/ \E t \in C : TerminateNext(t)
    \/ \E t \in Threads : StartCheck(t)
    \/ \E t \in Threads : StartSpawn(t)
    \/ \E t \in Threads : StartPoll(t)
    \/ \E t \in Threads : StartList(t)
    \/ \E t \in Threads : StartFinish(t)
    \/ \E t \in Threads : StopTerm(t)
    \/ \E t \in Threads : StopClean(t)
    \/ \E m \in Monitors : MonLoop(m)
    \/ \E m \in Monitors : MonIter(m)
    \/ \E m \in Monitors : MonProbe(m)
    \/ \E m \in Monitors : MonOk(m)
    \/ \E m \in Monitors : MonFail(m)

\* Steps of a control context that starts single workers and the monitor and
\* never stops either, and of the monitor thread.
LiveNext(C) ==
    \/ \E t \in C, id \in Ids : CallStart(t, id)
    \/ \E t \in C : start_health_monitoring(t, FirstMonitor)
    \/ \E t \in Threads : StartCheck(t)
    \/ \E t \in Threads : StartSpawn(t)
    \/ \E t \in Threads : StartPoll(t)
    \/ \E t \in Threads : StartList(t)
    \/ \E t \in Threads : StartFinish(t)
    \/ \E t \in Threads : StopTerm(t)
    \/ \E t \in Threads : StopClean(t)
    \/ \E m \in Monitors : MonLoop(m)
    \/ \E m \in Monitors : MonIter(m)
    \/ \E m \in Monitors : MonProbe(m)
    \/ \E m \in Monitors : MonOk(m)
    \/ \E m \in Monitors : MonFail(m)

\* A step of monitor thread m: of its loop, of a probe, or of the restart it
\* makes for auto-recovery.
MonitorStep(m) ==
    \/ MonLoop(m)
    \/ MonIter(m)
    \/ MonProbe(m)
    \/ MonOk(m)
    \/ MonFail(m)
    \/ StopTerm(m)
    \/ StopClean(m)
    \/ StartCheck(m)
    \/ StartSpawn(m)
    \/ StartPoll(m)
    \/ StartList(m)
    \/ StartFinish(m)

\* The loop reaches a RUNNING worker whose check interval has elapsed since
\* last_check and probes it.
ProbeDue(m) == MonIter(m) /\ pc'[m] \in {"mon_probe", "mon_fail"}

\* The monitor thread is scheduled again and again: none of its sleeps and
\* none of its requests blocks for ever; and time passes, so that the check
\* interval of a worker the loop keeps visiting elapses.
MonitorFairness ==
    /\ WF_vars(MonitorStep("m1"))
    /\ SF_vars(ProbeDue("m1"))

\* One control context and the monitor thread.
Next == ControlNext({"c1"}) \/ MonitorNext({"c1"})

\* One configured worker; control calls interleaved with the monitor thread.
Spec == Init /\ [][Next]_vars

\* Two configured workers; one control context, the monitor never started.
SpecTwo == InitTwo /\ [][ControlNext({"c1"})]_vars

\* One configured worker; two control contexts, the monitor never started.
SpecRace == Init /\ [][ControlNext(Callers)]_vars

\* Two configured workers of any priorities and auto_start flags; one
\* control context that starts and stops all workers.
SpecBatch == InitBatch /\ [][BatchNext({"c1"})]_vars

\* An unpinned worker and a worker with a pinned port; one control context
\* that starts and stops all workers.
SpecPinned == InitPinned /\ [][BatchNext({"c1"})]_vars

\* One configured worker without auto-recovery; one control context that
\* starts the worker and starts and stops the monitor any number of times.
SpecLoops == InitLoops /\ [][LoopsNext({"c1"})]_vars

\* The manager's construction: _load_config on every document.
SpecLoad == InitLoad /\ [][load_config("c1")]_vars

\* The manager's construction on a document, and then the control calls of
\* one foreground context on the manager, if there is one.
SpecLaunch ==
    InitLaunch /\ [][LoadConfig("c1", TRUE) \/ ControlNext({"c1"})]_vars

\* One configured worker; the workers and the monitor are started and the
\* application shuts down through terminate_mcp_processes.
SpecShutdown == Init /\ [][ShutdownNext({"c1"})]_vars

\* One configured worker; a control context that starts the worker and the
\* monitor, and the monitor thread under fair scheduling.
SpecLive == Init /\ [][LiveNext({"c1"})]_vars /\ MonitorFairness

\* The application's start, and then the control calls of one request
\* handler on cls.mcp_manager.
SpecAgent == InitAgent /\ [][initialize_agent("c1") \/ ControlNext({"c1"})]_vars

(* ------------------------------ properties ----------------------------- *)

\* No control context is inside a call.
CallersIdle == \A t \in Callers : pc[t] = "idle"

\* The thread is inside start_server, stop_server or _check_server_health,
\* past its first step.
InProgress(t) ==
    pc[t] \in {"start_spawn", "start_poll", "start_list", "start_finish",
               "stop_clean", "mon_probe", "mon_ok", "mon_fail"}

\* The monitor thread is inside the restart_server call of auto-recovery.
InRestart(m) ==
    pc[m] \in {"stop_term", "stop_clean", "start_check", "start_spawn",
               "start_poll", "start_list", "start_finish"}

\* C1: after any sequence of control calls, the port of a worker that is
\* not Stopped is not in the free pool and is not the port of another worker
\* that is not Stopped.
C1_PortExclusive ==
    CallersIdle =>
        \A id \in TrackedIds :
            status[id] # "stopped" =>
                /\ port[id] \notin port_pool
                /\ \A o \in TrackedIds \ {id} :
                       status[o] # "stopped" => port[o] # port[id]

\* The transitions of the health state machine.
StateMachine ==
    {<<"stopped", "starting">>, <<"starting", "running">>,
     <<"starting", "failed">>, <<"running", "unhealthy">>,
     <<"unhealthy", "running">>, <<"unhealthy", "failed">>}
    \cup {<<s, "stopped">> :
             s \in {"starting", "running", "unhealthy", "failed"}}

\* C2: every change of a worker's status is a transition of the state
\* machine.
C2_StateMachine ==
    [][\A id \in Ids :
          status'[id] # status[id] =>
              <<status[id], status'[id]>> \in StateMachine]_vars

\* C3: no two threads are inside a mutating operation on the same worker at
\* the same time.
C3_Serialized ==
    \A t1, t2 \in Threads :
        (t1 # t2 /\ InProgress(t1) /\ InProgress(t2)) => cur[t1] # cur[t2]

\* C4: once the concurrent start and stop calls have returned, a worker with
\* status Running has its client, a non-empty capability list and a live
\* process.
C4_RunningIsBacked ==
    CallersIdle =>
        \A id \in Ids :
            status[id] = "running" =>
                client[id] /\ tools[id] # <<>> /\ process[id] = "alive"

\* C5: a worker that is Stopped is never set to Unhealthy, so auto-recovery
\* never restarts it: a probe in flight cannot undo a stop.
C5_StopIsFinal ==
    [][\A id \in Ids :
          status[id] = "stopped" => status'[id] # "unhealthy"]_vars

\* C6: a worker becomes Unhealthy from Running, at the failed probe that
\* brings failure_count to retry_count and not before; a probe is sent only
\* to a Running worker, and while a worker is not Running its failure_count
\* does not grow.
C6_UnhealthyAtRetryCount ==
    [][\A id \in DOMAIN config :
          /\ (status[id] # "unhealthy" /\ status'[id] = "unhealthy") =>
                 /\ status[id] = "running"
                 /\ failure_count'[id] = failure_count[id] + 1
                 /\ failure_count'[id] = config[id].retry_count
          /\ (status[id] = "running"
                /\ failure_count'[id] = config[id].retry_count
                /\ failure_count[id] < failure_count'[id]) =>
                 status'[id] = "unhealthy"
          /\ \A m \in Monitors :
                 (pc[m] = "mon_iter" /\ pc'[m] \in {"mon_probe", "mon_fail"}
                    /\ cur'[m] = id) => status[id] = "running"
          /\ status[id] # "running" =>
                 failure_count'[id] <= failure_count[id]]_vars

\* C7: with auto_recovery, the monitor enters restart_server exactly in the
\* steps that move a worker to Unhealthy: every Running->Unhealthy
\* transition starts one restart, and no restart starts without one.
C7_OneRestartPerTransition ==
    [][auto_recovery =>
          /\ \A id \in Ids :
                 (status[id] = "running" /\ status'[id] = "unhealthy") =>
                     \E m \in Monitors :
                         /\ ~InRestart(m)
                         /\ pc'[m] = "stop_term"
                         /\ cur'[m] = id
          /\ \A m \in Monitors :
                 (~InRestart(m) /\ InRestart(m)') =>
                     /\ pc'[m] = "stop_term"
                     /\ status[cur'[m]] # "unhealthy"
                     /\ status'[cur'[m]] = "unhealthy"]_vars

\* Witness of C7: auto-recovery has just been triggered for a worker.
C7_Witness ==
    \E m \in Monitors :
        /\ auto_recovery
        /\ pc[m] = "stop_term"
        /\ op[m] = "tick"
        /\ status[cur[m]] = "unhealthy"

\* C8: with auto_recovery off the monitor never enters restart_server, and
\* no step of the monitor changes the status, process, client or port of an
\* Unhealthy worker.
C8_NoRecoveryWhenDisabled ==
    [][~auto_recovery =>
          /\ \A m \in Monitors : ~InRestart(m)'
          /\ \A id \in Ids :
                 (status[id] = "unhealthy"
                    /\ \A t \in Callers : pc'[t] = pc[t]) =>
                     /\ status'[id] = "unhealthy"
                     /\ process'[id] = process[id]
                     /\ client'[id] = client[id]
                     /\ port'[id] = port[id]
                     /\ port_pool' = port_pool]_vars

\* Witness of C8: auto_recovery is off, a worker is Unhealthy and the
\* monitor has gone on with its loop.
C8_Witness ==
    \E m \in Monitors, id \in Ids :
        /\ ~auto_recovery
        /\ status[id] = "unhealthy"
        /\ failure_count[id] = config[id].retry_count
        /\ pc[m] = "mon_loop"
        /\ CallersIdle

\* C9: failure_count is 0 right after a successful handshake and right
\* after a successful probe.
C9_FailureCountReset ==
    [][/\ \A t \in Threads :
              (pc[t] = "start_finish" /\ pc'[t] # "start_finish") =>
                  failure_count'[cur[t]] = 0
       /\ \A m \in Monitors :
              (pc[m] = "mon_ok" /\ pc'[m] # "mon_ok") =>
                  failure_count'[cur[m]] = 0]_vars

\* Witness of C9: a handshake has succeeded for a worker whose
\* failure_count is not 0.
C9_Witness ==
    \E t \in Threads :
        /\ pc[t] = "start_finish"
        /\ failure_count[cur[t]] > 0

\* C10: start on a Running worker returns True and changes neither the
\* configuration, the port pool nor any field of any worker.
C10_StartOnRunningIsNoop ==
    [][\A t \in Callers :
          (/\ pc[t] = "start_check"
           /\ pc'[t] # "start_check"
           /\ Tracked(cur[t])
           /\ status[cur[t]] = "running") =>
              /\ ret'[t] = "true"
              /\ UNCHANGED <<cfgVars, port_pool, regVars>>]_vars

\* Witness of C10: start has been called on a Running worker.
C10_Witness ==
    \E t \in Callers :
        /\ pc[t] = "start_check"
        /\ op[t] = "start"
        /\ Tracked(cur[t])
        /\ status[cur[t]] = "running"
        /\ failure_count[cur[t]] > 0

\* C11: start on a configured worker that is disabled returns success and
\* changes neither the configuration, the port pool nor any worker record.
C11_StartDisabledIsNoopSuccess ==
    [][\A t \in Callers :
          (/\ pc[t] = "start_check"
           /\ pc'[t] # "start_check"
           /\ cur[t] \in DOMAIN config
           /\ ~config[cur[t]].enabled) =>
              /\ ret'[t] = "true"
              /\ UNCHANGED <<cfgVars, port_pool, regVars>>]_vars

\* C12: start on an id the configuration does not declare returns failure
\* and changes neither the configuration, the port pool nor any worker
\* record (no record, no port taken, no process).
C12_StartUnknownFails ==
    [][\A t \in Callers :
          (/\ pc[t] = "start_check"
           /\ pc'[t] # "start_check"
           /\ cur[t] \notin DOMAIN config) =>
              /\ ret'[t] = "false"
              /\ UNCHANGED <<cfgVars, port_pool, regVars>>]_vars

\* Witness of C12: start on an unknown id has returned failure while the
\* configured worker is running on a port of the pool.
C12_Witness ==
    \E t \in Callers :
        /\ pc[t] = "idle"
        /\ ret[t] = "false"
        /\ status["a"] = "running"
        /\ ~Tracked("b")
        /\ "b" \notin DOMAIN config

\* C13: stop on an untracked id or on a worker that is already Stopped
\* returns success and leaves the configuration, the registry and the free
\* port pool as they were.
C13_StopOnStoppedIsNoop ==
    [][\A t \in Callers :
          (/\ pc[t] \in {"stop_term", "stop_clean"}
           /\ pc'[t] # pc[t]
           /\ (~Tracked(cur[t]) \/ status[cur[t]] = "stopped")) =>
              /\ UNCHANGED <<cfgVars, port_pool, regVars>>
              /\ pc'[t] # "stop_clean" => ret'[t] = "true"]_vars

\* C14: stop on a tracked worker terminates the live process the record
\* holds, and when it returns success the worker is Stopped, has no client
\* and no capabilities, and its assigned port is in the free pool; whatever
\* its status was before.
C14_StopPostcondition ==
    [][\A t \in Threads :
          /\ (/\ pc[t] = "stop_term"
              /\ pc'[t] # "stop_term"
              /\ Tracked(cur[t])
              /\ process[cur[t]] = "alive") =>
                 process'[cur[t]] = "exited"
          /\ (pc[t] = "stop_clean" /\ pc'[t] # "stop_clean") =>
                 /\ status'[cur[t]] = "stopped"
                 /\ ~client'[cur[t]]
                 /\ tools'[cur[t]] = <<>>
                 /\ port'[cur[t]] \in port_pool'
                 /\ t \in Callers => ret'[t] = "true"]_vars

\* Witness of C14: stop has terminated the process of an Unhealthy worker
\* that has a client and capabilities, and is about to clean up.
C14_Witness ==
    \E t \in Callers :
        /\ pc[t] = "stop_clean"
        /\ op[t] = "stop"
        /\ status[cur[t]] = "unhealthy"
        /\ process[cur[t]] = "exited"
        /\ client[cur[t]]
        /\ tools[cur[t]] # <<>>
        /\ port[cur[t]] \notin port_pool

\* C15: a tracked worker whose status is Stopped holds neither a process
\* handle nor a client.
C15_StoppedHoldsNothing ==
    \A id \in TrackedIds :
        status[id] = "stopped" => (process[id] = "none" /\ ~client[id])

\* C16: when the handshake fails while the launched process is alive, start
\* returns failure, the status is Failed, error_message is set, and the
\* process is still alive and still the one the record holds.
C16_HandshakeFailureLeavesProcess ==
    [][\A t \in Threads :
          (/\ pc[t] = "start_list"
           /\ pc'[t] \notin {"start_list", "start_finish"}
           /\ process[cur[t]] = "alive") =>
              /\ status'[cur[t]] = "failed"
              /\ error_message'[cur[t]] # "none"
              /\ process'[cur[t]] = "alive"
              /\ orphans' = orphans
              /\ t \in Callers => ret'[t] = "false"]_vars

\* Witness of C16: start has returned failure after a failed handshake and
\* the process it launched is alive.
C16_Witness ==
    \E t \in Callers :
        /\ pc[t] = "idle"
        /\ ret[t] = "false"
        /\ status["a"] = "failed"
        /\ error_message["a"] = "connect"
        /\ process["a"] = "alive"

\* C17: when the launched process has exited by the end of the startup
\* delay, start returns failure without going on to the handshake: the
\* status is Failed, error_message records the exit, no client is created
\* and the capability list is not touched.
C17_EarlyExitFails ==
    [][\A t \in Threads :
          (/\ pc[t] = "start_poll"
           /\ pc'[t] # "start_poll"
           /\ process'[cur[t]] # "alive") =>
              /\ pc'[t] \notin {"start_list", "start_finish"}
              /\ status'[cur[t]] = "failed"
              /\ error_message'[cur[t]] = "exit"
              /\ client' = client
              /\ tools' = tools
              /\ t \in Callers => ret'[t] = "false"]_vars

\* Witness of C17: start has returned failure because the process exited
\* during the startup delay; the worker has no client and no capabilities.
C17_Witness ==
    \E t \in Callers :
        /\ pc[t] = "idle"
        /\ ret[t] = "false"
        /\ status["a"] = "failed"
        /\ error_message["a"] = "exit"
        /\ process["a"] = "exited"
        /\ ~client["a"]
        /\ tools["a"] = <<>>

\* C18: when the handshake succeeds, start returns success with status
\* Running, failure_count 0, error_message cleared, a client, and a
\* capability list with exactly one capability per tool of the advertised
\* catalogue, in place of any earlier list.
C18_HandshakeSuccess ==
    [][\A t \in Threads :
          (pc[t] = "start_finish" /\ pc'[t] # "start_finish") =>
              LET id == cur[t] IN
              /\ status'[id] = "running"
              /\ failure_count'[id] = 0
              /\ error_message'[id] = "none"
              /\ client'[id]
              /\ Len(tools'[id]) = Len(found[t])
              /\ \A i \in 1..Len(found[t]) :
                     tools'[id][i] = <<id, found[t][i]>>
              /\ t \in Callers => ret'[t] = "true"]_vars

\* C19: no failure inside start or stop leaves the call as an exception,
\* and a start of a configured, enabled worker that returns failure leaves
\* the worker Failed with error_message set.
C19_FailuresAreResults ==
    [][\A t \in Callers :
          (/\ pc[t] \in {"start_check", "start_spawn", "start_poll",
                         "start_list", "start_finish", "stop_term",
                         "stop_clean"}
           /\ pc'[t] # pc[t]
           /\ cur[t] \in DOMAIN config
           /\ config[cur[t]].enabled) =>
              /\ ret'[t] # "raise"
              /\ ret'[t] = "false" =>
                     /\ status'[cur[t]] = "failed"
                     /\ error_message'[cur[t]] # "none"]_vars

\* Position of a worker in the declaration order of the configuration.
DeclIndex(id) == CHOOSE i \in 1..Len(IdOrder) : IdOrder[i] = id

\* Worker x comes before worker y: lower priority number, or the same
\* priority and declared earlier.
Before(x, y) ==
    \/ config[x].priority < config[y].priority
    \/ /\ config[x].priority = config[y].priority
       /\ DeclIndex(x) < DeclIndex(y)

\* The workers start_all has not attempted yet.
Pending(t) == {todo[t][i] : i \in 1..Len(todo[t])}

\* C20: inside start_all, a port assignment, a process launch or a status
\* change happens only to the worker being attempted, which has auto_start
\* set; by then every worker that comes before it (lower priority number,
\* or equal priority and declared earlier) has been attempted or skipped,
\* and no worker that comes after it has been attempted.
C20_StartAllOrder ==
    [][\A t \in Callers :
          op[t] = "start_all" =>
              \A w \in DOMAIN config :
                  (\/ port'[w] # port[w]
                   \/ process'[w] # process[w]
                   \/ status'[w] # status[w]) =>
                      /\ w = cur[t]
                      /\ config[w].auto_start
                      /\ \A v \in DOMAIN config \ {w} :
                             /\ Before(v, w) => v \notin Pending(t)
                             /\ Before(w, v) => v \in Pending(t)]_vars

\* Witness of C20: start_all is launching "b", which is declared second
\* and has the lower priority number, while "a" has not been attempted.
C20_Witness ==
    \E t \in Callers :
        /\ op[t] = "start_all"
        /\ pc[t] = "start_poll"
        /\ cur[t] = "b"
        /\ config["b"].priority < config["a"].priority
        /\ config["a"].auto_start
        /\ "a" \in Pending(t)
        /\ ~Tracked("a")

\* C21: start_all always ends by returning its result map, after an attempt
\* on every configured worker: no failure of one worker's start ends the
\* call early.
C21_StartAllAlwaysCompletes ==
    [][\A t \in Callers :
          (op[t] = "start_all" /\ op'[t] # "start_all") =>
              /\ ret'[t] = "done"
              /\ todo[t] = <<>>]_vars

\* The positions inside stop_server and inside start_server.
StopPhase == {"stop_term", "stop_clean"}

StartPhase ==
    {"start_check", "start_spawn", "start_poll", "start_list", "start_finish"}

\* C22: restart runs stop and then start, in that order, and returns the
\* result of that start; a restart that returns success leaves the worker
\* Running with failure_count 0, and the port of a tracked worker is the
\* same throughout.
C22_RestartIsStopThenStart ==
    [][\A t \in Callers :
          op[t] = "restart" =>
              /\ pc[t] \in StopPhase \cup StartPhase
              /\ pc[t] \in StopPhase =>
                     pc'[t] \in StopPhase \cup {"start_check"}
              /\ pc[t] \in StartPhase => pc'[t] \in StartPhase \cup {"idle"}
              /\ Tracked(cur[t]) => port'[cur[t]] = port[cur[t]]
              /\ (pc'[t] = "idle" /\ ret'[t] = "true") =>
                     /\ status'[cur[t]] = "running"
                     /\ failure_count'[cur[t]] = 0]_vars

\* C23: when stop_all returns, every tracked worker is Stopped.
C23_StopAllStopsAll ==
    [][\A t \in Callers :
          (op[t] = "stop_all" /\ pc'[t] = "idle") =>
              \A id \in TrackedIds : status'[id] = "stopped"]_vars

\* C24: for every outcome of the bind probes, an allocation returns the
\* lowest pool port whose probe succeeded (none when every probe fails);
\* the port a new worker is given lies in the range, was in the pool, is
\* removed from it, and differs from every port allocated before and not
\* released since.
C24_AllocationDistinct ==
    [][\A id \in Ids :
          (~Tracked(id) /\ Tracked(id)') =>
              /\ \A b \in SUBSET PortRange :
                     LET p == find_available_port(port_pool, b) IN
                     IF port_pool \cap b = {} THEN p = 0
                     ELSE /\ p \in port_pool \cap b
                          /\ \A q \in port_pool \cap b : p <= q
              /\ port'[id] \in PortRange
              /\ port'[id] \in port_pool
              /\ port_pool' = port_pool \ {port'[id]}
              /\ \A o \in TrackedIds :
                     port[o] \notin port_pool => port'[id] # port[o]]_vars

\* Witness of C24: two allocations without a release; the first returned
\* the higher port (the probe of the lower one failed), the second the
\* lower one.
C24_Witness ==
    /\ Tracked("a") /\ Tracked("b")
    /\ servers[1] = "a"
    /\ port["a"] = PortStart + 1
    /\ port["b"] = PortStart
    /\ port["a"] \notin port_pool
    /\ port["b"] \notin port_pool

\* C25: the release made by stop puts the worker's port into the free pool
\* and changes nothing else of it; releasing a port that is already in the
\* pool leaves the pool as it is.
C25_ReleaseIdempotent ==
    [][\A t \in Threads :
          (pc[t] = "stop_clean" /\ pc'[t] # "stop_clean") =>
              /\ port[cur[t]] \in port_pool'
              /\ port_pool' \ {port[cur[t]]} = port_pool \ {port[cur[t]]}
              /\ port[cur[t]] \in port_pool => port_pool' = port_pool]_vars

\* Witness of C25: stop is about to release, a second time, the port of a
\* Stopped worker that is already in the pool.
C25_Witness ==
    \E t \in Callers :
        /\ pc[t] = "stop_clean"
        /\ status[cur[t]] = "stopped"
        /\ port[cur[t]] \in port_pool
        /\ process[cur[t]] = "exited"

\* C26: the unpinned worker "a" is never given the port that the
\* configuration pins for "b", and when both are Running they are on
\* different ports.
C26_PinnedPortReserved ==
    /\ Tracked("a") => port["a"] # PortStart + 1
    /\ (status["a"] = "running" /\ status["b"] = "running") =>
           port["a"] # port["b"]

\* C27: while monitoring is active no monitor loop is created, whatever
\* calls are made: a monitor thread that does not exist or has ended stays
\* so.
C27_StartMonitorTwiceIsNoop ==
    [][monitoring_active =>
          \A m \in Monitors :
              pc[m] \in {"mon_none", "mon_exit"} => pc'[m] = pc[m]]_vars

\* Witness of C27: monitoring is active, its loop has a probe in flight and
\* the control context is free to call start_health_monitoring again.
C27_Witness ==
    /\ monitoring_active
    /\ pc["m1"] = "mon_probe"
    /\ pc["m2"] = "mon_none"
    /\ pc["c1"] = "idle"

\* Number of times e occurs in the sequence s.
Count(e, s) == Cardinality({i \in 1..Len(s) : s[i] = e})

\* Every capability <<worker, tool>> that can exist.
AllCapabilities == Ids \X {"t1", "t2"}

\* C28: get_all_tools holds exactly the capabilities of the tracked workers
\* that are Running, get_tools_by_category(c) exactly those of the Running
\* workers of category c, and the latter are among the former.
C28_ToolsOfRunningWorkers ==
    \A e \in AllCapabilities :
        LET id == e[1]
            mine == IF Tracked(id) /\ status[id] = "running"
                    THEN Count(e, tools[id]) ELSE 0
        IN /\ Count(e, get_all_tools) = mine
           /\ \A c \in Categories :
                  /\ Count(e, get_tools_by_category(c)) =
                         IF id \in DOMAIN config /\ config[id].category = c
                         THEN mine ELSE 0
                  /\ Count(e, get_tools_by_category(c))
                         <= Count(e, get_all_tools)

\* Witness of C28: an Unhealthy worker still has its capabilities, and the
\* queries return none of them.
C28_Witness ==
    /\ status["a"] = "unhealthy"
    /\ tools["a"] # <<>>
    /\ get_all_tools = <<>>
    /\ get_tools_by_category("workout") = <<>>

\* The report of validate_config on the loaded document has valid = True
\* exactly when it has no errors.
ValidIffNoErrors(r) == r.valid <=> Len(r.errors) = 0

\* C29: whenever validate_config returns a report, the report has
\* valid = true if and only if its errors list is empty, whatever its
\* warnings and recommendations are; the same holds of the report of every
\* worker in server_validations.
C29_ValidIffNoErrors ==
    \A schema \in SchemaVerdicts :
        LET r == validate_config(config, schema) IN
        ~r.raised =>
            /\ ValidIffNoErrors(r)
            /\ \A id \in DOMAIN r.server_validations :
                   ValidIffNoErrors(r.server_validations[id])

\* Witness of C29: _load_config accepted a document whose report carries
\* warnings and recommendations and no error.
C29_Witness ==
    /\ pc["c1"] = "idle"
    /\ ret["c1"] = "loaded"
    /\ \E schema \in SchemaVerdicts :
           LET r == validate_config(config, schema) IN
           /\ ~r.raised
           /\ r.valid
           /\ Len(r.errors) = 0
           /\ Len(r.warnings) > 1
           /\ Len(r.recommendations) > 0

\* C30: validate_config never raises; on every document it returns a
\* report with valid, errors, warnings, recommendations and the per-worker
\* map.
C30_ValidateNeverRaises ==
    \A schema \in SchemaVerdicts :
        LET r == validate_config(config, schema) IN
        /\ ~r.raised
        /\ {"valid", "errors", "warnings", "recommendations",
            "server_validations"} \subseteq DOMAIN r
        /\ DOMAIN r.server_validations = DOMAIN config.mcp_servers

\* An integer port outside 1..65535.
OutOfRange(p) == p.t = "int" /\ (p.n < 1 \/ p.n > 65535)

\* The entry sc of a document configures such a port.
HasBadPort(sc) ==
    sc.connection.t = "dict" /\ OutOfRange(sc.connection.port)

\* config still holds the document: _load_config has not run or has failed.
Unloaded(t) == pc[t] \in {"load_config", "failed"}

C32_ConfigImmutable == [][config' = config]_vars

\* C33: the monitor sends a probe only to a worker that is Running, and the
\* outcome of a probe changes neither the status nor the failure_count nor
\* the error_message of a worker that is not Running.  (The restart that
\* auto-recovery makes right after marking a worker Unhealthy is not a
\* probe and is left out.)
C33_MonitorLeavesNonRunning ==
    [][\A m \in Monitors :
          /\ (pc[m] = "mon_iter" /\ pc'[m] \in {"mon_probe", "mon_fail"}) =>
                 status[cur'[m]] = "running"
          /\ (/\ pc[m] \in {"mon_ok", "mon_fail"}
              /\ pc'[m] # pc[m]
              /\ status[cur[m]] # "running") =>
                 /\ status'[cur[m]] = status[cur[m]]
                 /\ failure_count'[cur[m]] = failure_count[cur[m]]
                 /\ error_message'[cur[m]] = error_message[cur[m]]]_vars

\* The live processes spawned for worker id: the one its record holds, if
\* it has not exited, and those spawned earlier that no handle refers to.
LiveProcesses(id) ==
    (IF process[id] = "alive" THEN 1 ELSE 0) + orphans[id]

\* C34: every worker has at most one live spawned process at any time, and
\* start never spawns a process for a worker whose earlier process is still
\* alive.
C34_OneLiveProcess ==
    \A id \in Ids : LiveProcesses(id) <= 1

\* C35: the free port pool holds only ports of the configured range, so
\* that no worker without a pinned port is given a port outside the range.
C35_PoolWithinRange ==
    port_pool \subseteq PortRange

\* The monitor threads whose loop has been started and has not ended.
ExecutingLoops == {m \in Monitors : pc[m] \notin {"mon_none", "mon_exit"}}

\* C36: after any sequence of start_health_monitoring and
\* stop_health_monitoring calls at most one monitor loop is executing.
C36_OneMonitorLoop ==
    Cardinality(ExecutingLoops) <= 1

\* The shutdown sequence has returned in context t.
ShutDown(t) == pc[t] = "terminated"

\* C37: once the shutdown sequence (stop_all, then stopping the monitor) has
\* returned, every tracked worker is Stopped and the process its record
\* holds is not alive, and this stays so: the monitor thread restarts no
\* worker during or after the shutdown.
C37_ShutdownIsFinal ==
    ShutDown("c1") =>
        \A id \in TrackedIds : status[id] = "stopped" /\ process[id] # "alive"

\* C38: a Running worker with a retry_count of at least 1 has fewer
\* recorded probe failures than its retry_count.
C38_RunningBelowRetryCount ==
    \A id \in ConfiguredIds :
        (status[id] = "running" /\ config[id].retry_count >= 1) =>
            failure_count[id] < config[id].retry_count

\* Witness of C38: a probe of a Running worker has failed and the worker,
\* with a retry_count of 2, is still Running with one failure recorded.
C38_Witness ==
    /\ status["a"] = "running"
    /\ config["a"].retry_count = 2
    /\ failure_count["a"] = 1
    /\ error_message["a"] = "probe"

\* No probe is answered in this step.
NoProbeSucceeds == \A m \in Monitors : pc'[m] # "mon_ok"

\* Worker id is Running with health checks enabled while the monitor is
\* active.
Monitored(id) ==
    /\ id \in ConfiguredIds
    /\ status[id] = "running"
    /\ config[id].health_enabled
    /\ monitoring_active

C40_LaunchedWorkersAreTracked ==
    \A id \in Ids : orphans[id] > 0 => get_server_status(id) # "None"

====
